---- MODULE Spec2Model ----
(***************************************************************************)
(* State-machine model of the WAF decision service (main.py) and of the    *)
(* log service (logs.py).                                                  *)
(*                                                                         *)
(* Strings are sequences of one-character strings.  Floating point scores  *)
(* (reconstruction error, training statistics) are scaled integers.        *)
(***************************************************************************)
EXTENDS Integers, Sequences, FiniteSets, Bags, TLC

VARIABLES
    pa,     \* the last predict_anomaly call: arguments, the three signals, result
    gr,     \* the last generate_rule_from_payload call: arguments and result
    active_connections,  \* manager.active_connections: a list of websockets
    ws_state,            \* each websocket_logs handler: where it stands
    bc,                  \* each task's manager.broadcast call
    startup,             \* what module start-up left: r, analysis_collection, ...
    rules,               \* the Redis set waf:rules:regex
    whitelist,           \* the Redis set waf:whitelist
    docs,                \* the documents of the collection analysis_logs
    next_oid,            \* the next ObjectId the driver generates
    call,                \* each /analyze request: its progress and result
    pr,                  \* the last /pass-request call: its input and result
    mode,                \* the Redis key waf:mode
    sm,                  \* the last /set-mode call: its input and result
    hc,                  \* the last /health call of main.py: its result
    logs_collection,     \* logs.py: analysis_collection is not None
    lg,                  \* the last call of the log service (logs.py)
    obs                  \* per /analyze request: its inputs and the mode stored
                         \* when it arrived (kept only where they are compared)

pure == <<pa, gr>>
hub == <<active_connections, ws_state, bc>>
stores == <<rules, whitelist, docs, next_oid>>
admin == <<mode, sm, hc>>
logsvc == <<logs_collection, lg>>
service == <<startup, rules, whitelist, docs, next_oid, call, pr,
             mode, sm, hc, logs_collection, lg, obs>>
vars == <<pa, gr, active_connections, ws_state, bc,
          startup, rules, whitelist, docs, next_oid, call, pr,
          mode, sm, hc, logs_collection, lg, obs>>

(***************************************************************************)
(* Bounds of the model.                                                    *)
(***************************************************************************)
MaxErr == 9          \* reconstruction errors range over 0..MaxErr
MaxStat == 1         \* training mean and std range over 0..MaxStat
MaxPayloadLen == 2   \* payloads handed to the synthesizer
MaxTextLen == 3      \* text the generation oracle returns

(***************************************************************************)
(* 3. Helper functions: predict_anomaly (main.py 137-144).                 *)
(***************************************************************************)
ZThreshold == 7

abs(x) == IF x < 0 THEN -x ELSE x

BoolInt(b) == IF b THEN 1 ELSE 0

\* if_anomaly = (iforest_inst.predict(features_scaled)[0] == -1)
if_anomaly(if_pred) == if_pred = -1

\* z_score = np.abs((err - mean) / std); statistical_anomaly = z_score > 7.
\* With std = 0 numpy yields inf (err # mean, inf > 7) or nan (err = mean,
\* nan > 7 is False).
statistical_anomaly(err, stats) ==
    IF stats.std_error = 0
    THEN err # stats.mean_error
    ELSE abs(err - stats.mean_error) > ZThreshold * stats.std_error

\* percentile_anomaly = reconstruction_error > stats['threshold_percentile']
percentile_anomaly(err, stats) == err > stats.threshold_percentile

predict_anomaly_gt(err, if_pred, stats) ==
    BoolInt(BoolInt(if_anomaly(if_pred)) + BoolInt(statistical_anomaly(err, stats))
            + BoolInt(percentile_anomaly(err, stats)) > 2)

\* return int(sum([if_anomaly, statistical_anomaly, percentile_anomaly]) >= 2)
predict_anomaly(err, if_pred, stats) ==
    BoolInt(BoolInt(if_anomaly(if_pred)) + BoolInt(statistical_anomaly(err, stats))
            + BoolInt(percentile_anomaly(err, stats)) >= 2)

Stats == [mean_error : 0..MaxStat, std_error : 0..MaxStat,
          threshold_percentile : 0..MaxErr]

NoCall == [called |-> FALSE]

PredictAnomaly ==
    /\ ~pa.called
    /\ \E err \in 0..MaxErr, if_pred \in {-1, 1}, stats \in Stats :
          pa' = [called |-> TRUE, err |-> err, if_pred |-> if_pred, stats |-> stats,
                 if_anomaly |-> if_anomaly(if_pred),
                 statistical_anomaly |-> statistical_anomaly(err, stats),
                 percentile_anomaly |-> percentile_anomaly(err, stats),
                 category |-> predict_anomaly(err, if_pred, stats)]
    /\ UNCHANGED <<gr, hub, service>>

(***************************************************************************)
(* Rule generation: generate_rule_from_payload (main.py 153-164).          *)
(***************************************************************************)
\* Characters of request payloads.
PayloadChars == {"a", "(", "\\"}

\* Characters of the text the generation oracle returns; "PROMPT" stands for
\* one verbatim copy of the prompt inside generated_text.
TextChars == {"a", "(", ")", "*", "\\", "\n", " ", "'", "PROMPT"}

RECURSIVE SeqsUpTo(_, _)
SeqsUpTo(S, n) ==
    IF n = 0 THEN {<<>>}
    ELSE LET shorter == SeqsUpTo(S, n - 1)
         IN  shorter \cup {Append(s, c) : s \in {t \in shorter : Len(t) = n - 1}, c \in S}

Prefix(s, n) == IF Len(s) <= n THEN s ELSE SubSeq(s, 1, n)

\* re.escape (Python >= 3.7): a backslash before each of ()[]{}?*+-|^$\.&~#
\* and whitespace; every other character is kept.
SpecialChars == {"(", ")", "*", "\\", " ", "\n"}

RECURSIVE re_escape(_)
re_escape(s) ==
    IF s = <<>> THEN <<>>
    ELSE (IF Head(s) \in SpecialChars THEN <<"\\", Head(s)>> ELSE <<Head(s)>>)
         \o re_escape(Tail(s))

\* re.compile succeeds: scan with the group depth and whether the previous
\* item can be repeated.  "(?i)" is the global flag group, accepted only at the
\* start of the pattern.
RECURSIVE Scan(_, _, _, _)
Scan(s, i, depth, atom) ==
    IF i > Len(s) THEN depth = 0
    ELSE LET c == s[i] IN
         CASE c = "\\"   -> i < Len(s) /\ Scan(s, i + 2, depth, TRUE)
           [] c = "("    -> Scan(s, i + 1, depth + 1, FALSE)
           [] c = ")"    -> depth > 0 /\ Scan(s, i + 1, depth - 1, TRUE)
           [] c = "*"    -> atom /\ Scan(s, i + 1, depth, FALSE)
           [] c = "(?i)" -> i = 1 /\ Scan(s, i + 1, depth, FALSE)
           [] OTHER      -> Scan(s, i + 1, depth, TRUE)

Compiles(s) == Scan(s, 1, 0, FALSE)

\* str.replace(prompt, ""): every copy of the prompt is removed.
RemovePrompt(s) == SelectSeq(s, LAMBDA c : c # "PROMPT")

\* str.strip(chars): characters of the set removed from both ends.
RECURSIVE LStrip(_, _)
LStrip(s, cs) == IF s # <<>> /\ Head(s) \in cs THEN LStrip(Tail(s), cs) ELSE s

RECURSIVE RStrip(_, _)
RStrip(s, cs) ==
    IF s # <<>> /\ s[Len(s)] \in cs THEN RStrip(SubSeq(s, 1, Len(s) - 1), cs) ELSE s

Strip(s, cs) == RStrip(LStrip(s, cs), cs)

\* str.split('\n')[0]: the text before the first newline.
RECURSIVE FirstLine(_)
FirstLine(s) ==
    IF s = <<>> \/ Head(s) = "\n" THEN <<>> ELSE <<Head(s)>> \o FirstLine(Tail(s))

Whitespace == {" ", "\n"}

\* outputs[0]['generated_text'].replace(prompt, "").strip().split('\n')[0].strip('\'"')
regex_part(text) == Strip(FirstLine(Strip(RemovePrompt(text), Whitespace)), {"'"})

EscapeLen == 100

\* f"(?i){re.escape(payload[:100])}"
literal_rule(payload) == <<"(?i)">> \o re_escape(Prefix(payload, EscapeLen))

\* Outcomes of the text-generation oracle: llm_pipe is None (not loaded), the
\* call raises, or it returns generated text.
LlmNone == [kind |-> "none"]
LlmRaise == [kind |-> "raise"]
LlmText(t) == [kind |-> "text", text |-> t]

generate_rule_unchecked(payload, llm) ==
    IF payload = <<>> \/ llm.kind = "none" THEN literal_rule(payload)
    ELSE IF llm.kind = "raise" THEN literal_rule(payload)
    ELSE regex_part(llm.text)

generate_rule_from_payload(payload, llm) ==
    IF payload = <<>> \/ llm.kind = "none" THEN literal_rule(payload)
    ELSE IF llm.kind = "raise" THEN literal_rule(payload)
    ELSE IF Compiles(regex_part(llm.text)) THEN regex_part(llm.text)
    ELSE literal_rule(payload)

Payloads == SeqsUpTo(PayloadChars, MaxPayloadLen)
LlmOutcomes == {LlmNone, LlmRaise} \cup {LlmText(t) : t \in SeqsUpTo(TextChars, MaxTextLen)}

GenerateRule ==
    /\ ~gr.called
    /\ \E payload \in Payloads, llm \in LlmOutcomes :
          gr' = [called |-> TRUE, payload |-> payload, llm |-> llm,
                 rule |-> generate_rule_from_payload(payload, llm)]
    /\ UNCHANGED <<pa, hub, service>>

(***************************************************************************)
(* No helper call has been made yet.                                       *)
(***************************************************************************)
InitPure == pa = NoCall /\ gr = NoCall

(***************************************************************************)
(* WebSocket connection manager (main.py 169-197) and the websocket_logs   *)
(* handler (main.py 356-375).  The service runs on one event loop: a       *)
(* coroutine runs without interruption between two awaits, and other tasks *)
(* run while it is suspended in one.                                       *)
(***************************************************************************)
MaxSockets == 3      \* websockets that may connect
MaxTasks == 2        \* tasks that call manager.broadcast

Sockets == 1..MaxSockets
Tasks == 1..MaxTasks

Range(s) == {s[i] : i \in 1..Len(s)}

\* list.remove(x): the first occurrence is removed (x is in the list).
RECURSIVE ListRemove(_, _)
ListRemove(L, x) ==
    IF L = <<>> THEN <<>>
    ELSE IF Head(L) = x THEN Tail(L)
    ELSE <<Head(L)>> \o ListRemove(Tail(L), x)

\* for conn in disconnected: if conn in self.active_connections: remove(conn)
RECURSIVE Cleanup(_, _)
Cleanup(L, disconnected) ==
    IF disconnected = <<>> THEN L
    ELSE Cleanup(IF Head(disconnected) \in Range(L)
                 THEN ListRemove(L, Head(disconnected)) ELSE L,
                 Tail(disconnected))

IdleBroadcast ==
    [pc |-> "idle", msg |-> 0, idx |-> 0, cur |-> 0, disconnected |-> <<>>,
     start |-> {}, stable |-> {}, attempted |-> {}, failed |-> {},
     delivered |-> <<>>, end_active |-> {}]

\* Websockets removed from the list are no longer registered throughout any
\* broadcast in progress (history kept in bc[t].stable).
Unstable(b, t, removed) ==
    [u \in Tasks |-> IF u # t /\ b[u].pc = "sending"
                     THEN [b[u] EXCEPT !.stable = @ \ removed] ELSE b[u]]

\* The for loop of broadcast takes its next item: the list iterator yields
\* self.active_connections[idx] while idx < len, and the send to it starts;
\* at the end of the list the clean-up loop runs and the call returns.
Iterate(t, b) ==
    IF b.idx < Len(active_connections)
    THEN /\ bc' = [bc EXCEPT ![t] =
                     [b EXCEPT !.cur = active_connections[b.idx + 1],
                               !.idx = b.idx + 1,
                               !.attempted = @ \cup {active_connections[b.idx + 1]},
                               !.pc = "sending"]]
         /\ active_connections' = active_connections
    ELSE LET after == Cleanup(active_connections, b.disconnected)
             done == [b EXCEPT !.pc = "done", !.cur = 0,
                               !.end_active = Range(after)]
         IN  /\ active_connections' = after
             /\ bc' = Unstable([bc EXCEPT ![t] = done], t,
                               Range(active_connections) \ Range(after))

\* manager.broadcast(message) is called: disconnected = [], the loop starts.
BeginBroadcast(t, msg) ==
    /\ bc[t].pc = "idle"
    /\ Iterate(t, [IdleBroadcast EXCEPT !.msg = msg,
                                        !.start = Range(active_connections),
                                        !.stable = Range(active_connections)])

\* await connection.send_json(message) returns or raises; the loop goes on.
ResumeBroadcast(t) ==
    /\ bc[t].pc = "sending"
    /\ LET w == bc[t].cur IN
       IF ws_state[w] = "open"
       THEN Iterate(t, [bc[t] EXCEPT !.delivered = Append(@, w)])
       ELSE Iterate(t, [bc[t] EXCEPT !.failed = @ \cup {w},
                                     !.disconnected = Append(@, w)])

\* manager.connect: await websocket.accept(), then active_connections.append.
Connect(w) ==
    /\ ws_state[w] = "new"
    /\ ws_state' = [ws_state EXCEPT ![w] = "open"]
    /\ active_connections' = Append(active_connections, w)
    /\ UNCHANGED <<bc, pure, service>>

\* The client closes or the connection drops: sends to the websocket raise
\* from now on, and the handler's pending receive_text() will raise.
Lose(w) ==
    /\ ws_state[w] = "open"
    /\ ws_state' = [ws_state EXCEPT ![w] = "lost"]
    /\ UNCHANGED <<active_connections, bc, pure, service>>

\* manager.disconnect(websocket): list.remove raises ValueError when the
\* websocket is not in the list.
disconnect(w) ==
    IF w \in Range(active_connections)
    THEN /\ active_connections' = ListRemove(active_connections, w)
         /\ ws_state' = [ws_state EXCEPT ![w] = "closed"]
    ELSE /\ active_connections' = active_connections
         /\ ws_state' = [ws_state EXCEPT ![w] = "crashed"]

\* receive_text() raises WebSocketDisconnect or another error: either except
\* clause of websocket_logs calls manager.disconnect(websocket).
Teardown(w) ==
    /\ ws_state[w] = "lost"
    /\ disconnect(w)
    /\ bc' = Unstable(bc, 0, {w})
    /\ UNCHANGED <<pure, service>>

\* A task calls manager.broadcast with its record (main.py 267).
Broadcast(t) ==
    /\ BeginBroadcast(t, t)
    /\ UNCHANGED <<ws_state, pure, service>>

SendJson(t) ==
    /\ ResumeBroadcast(t)
    /\ UNCHANGED <<ws_state, pure, service>>

InitHub ==
    /\ active_connections = <<>>
    /\ ws_state = [w \in Sockets |-> "new"]
    /\ bc = [t \in Tasks |-> IdleBroadcast]

NextHub ==
    \/ \E w \in Sockets : Connect(w)
    \/ \E w \in Sockets : Lose(w)
    \/ \E w \in Sockets : Teardown(w)
    \/ \E t \in Tasks : Broadcast(t)
    \/ \E t \in Tasks : SendJson(t)

(***************************************************************************)
(* 1. Service connections (main.py 46-70, 148-151).  Start-up leaves r and *)
(* analysis_collection set or None, and the two model flags.               *)
(*                                                                         *)
(* The handlers test the collection object itself ("if analysis_collection"*)
(* main.py 238, "if not analysis_collection" main.py 324).  The outcome of *)
(* that test on a Collection depends on the installed driver: pymongo 3    *)
(* gives True, pymongo >= 4 raises NotImplementedError from                *)
(* Collection.__bool__.  collection_bool_raises is that property of the    *)
(* build.                                                                  *)
(***************************************************************************)
MaxCalls == 2        \* /analyze requests
MaxMainSockets == 1  \* websockets that connect while requests are analysed

MaxTime == 2         \* datetime.utcnow() ranges over 1..MaxTime

Calls == 1..MaxCalls
\* The wall clock is not monotonic and two reads may agree.
Timestamps == 1..MaxTime
MainSockets == 1..MaxMainSockets

Startups ==
    [r : BOOLEAN, analysis_collection : BOOLEAN, collection_bool_raises : BOOLEAN,
     anomaly_model_loaded : BOOLEAN, llm_pipe : BOOLEAN]

Healthy ==
    [r |-> TRUE, analysis_collection |-> TRUE, collection_bool_raises |-> FALSE,
     anomaly_model_loaded |-> TRUE, llm_pipe |-> TRUE]

\* bool(analysis_collection)
CollectionTruth ==
    IF ~startup.analysis_collection THEN "false"
    ELSE IF startup.collection_bool_raises THEN "raises"
    ELSE "true"

(***************************************************************************)
(* 4. /analyze (main.py 208-273).                                          *)
(***************************************************************************)
\* Python's None, and a key a dict does not have: neither is a string.
NoneRule == <<"None">>
MissingKey == <<"(missing)">>

\* Truth value of a str | None.
Truthy(x) == x # <<>> /\ x # NoneRule

Requests ==
    {[request_body |-> <<>>, path |-> <<>>],
     [request_body |-> <<>>, path |-> <<"a">>],
     [request_body |-> <<"(">>, path |-> <<"a">>]}

\* train_stats, fixed at start-up (main.py 87).
train_stats == [mean_error |-> 1, std_error |-> 1, threshold_percentile |-> 3]

\* extract_features raises, or returns the features predict_anomaly reads.
ExtractorOutcomes ==
    {[kind |-> "raise"]} \cup
    {[kind |-> "features", rec_error |-> e, if_pred |-> p] :
        e \in {0, 5}, p \in {-1}}

\* What llm_pipe does when called: raise, a valid pattern, an invalid
\* pattern, a text that strips to the empty string.
LlmCases == {LlmRaise, LlmText(<<"a">>), LlmText(<<"(">>), LlmText(<<"'">>)}

sadd_push(store, member) == store (+) SetToBag({member})

\* r.sadd(key, member): Redis adds the member to the set stored at the key
\* unless it is a member already.  The store is kept as a bag, so that a
\* second copy of a literal would show.
sadd(store, member) ==
    IF BagIn(member, store) THEN store ELSE store (+) SetToBag({member})

\* payload = request_data.request_body or request_data.path
payload_of(req) == IF req.request_body # <<>> THEN req.request_body ELSE req.path

action_taken_block(is_malicious) == "BLOCK"

\* "BLOCK" if is_malicious else "ALLOW"
action_taken(is_malicious) == IF is_malicious THEN "BLOCK" ELSE "ALLOW"

\* The response dict of either branch (main.py 232, 235).
response_of(is_malicious, new_rule) ==
    IF is_malicious
    THEN [allow |-> FALSE, auto_learned_rule |-> new_rule]
    ELSE [allow |-> TRUE, auto_learned_rule |-> MissingKey]

NoResponse == [allow |-> "none", auto_learned_rule |-> MissingKey]

log_document(id, now, req, is_malicious, new_rule) ==
    [_id |-> id, timestamp |-> now,
     request_body |-> req.request_body, is_malicious |-> is_malicious,
     action_taken |-> action_taken(is_malicious), auto_learned_rule |-> new_rule]

IdleCall ==
    [pc |-> "idle", outcome |-> "none", fail |-> "none", verdict |-> "none",
     payload |-> <<>>, llm_raised |-> FALSE, new_rule |-> NoneRule,
     added |-> NoneRule, response |-> NoResponse, doc_id |-> 0]

on_exception_swallowed(c, where) == [c EXCEPT !.fail = where, !.outcome = "ok"]

\* except Exception as e: raise HTTPException(status_code=500, ...): the
\* request ends with status 500 and no response body of analyze.
on_exception(c, where) ==
    [c EXCEPT !.fail = where, !.outcome = "500", !.response = NoResponse]

\* new_rule = generate_rule_from_payload(payload) on the malicious branch.
new_rule_of(payload, gen) == generate_rule_from_payload(payload, gen)

\* A detector that would be switched off by the stored mode.
is_malicious_unless_off(category) == category # 0 /\ mode # "off"

\* is_malicious = bool(category)
is_malicious_of(category) == category # 0

\* The body of analyze up to "if analysis_collection:" decides the insert.
\* Any exception inside the try block ends the request with status 500
\* (main.py 271-273); whatever was written before it stays written.
analyze(req, ext, llm, redis_ok, mongo_ok) ==
    IF ~startup.anomaly_model_loaded THEN [IdleCall EXCEPT !.outcome = "503"]
    ELSE IF ext.kind = "raise"
    THEN on_exception(IdleCall, "extractor")
    ELSE
    LET category == predict_anomaly(ext.rec_error, ext.if_pred, train_stats)
        is_malicious == is_malicious_of(category)
        payload == payload_of(req)
        gen == IF startup.llm_pipe THEN llm ELSE LlmNone
        new_rule == IF is_malicious THEN new_rule_of(payload, gen) ELSE NoneRule
        adds == is_malicious /\ Truthy(new_rule) /\ startup.r
        decided ==
            [IdleCall EXCEPT
                !.verdict = IF is_malicious THEN "malicious" ELSE "benign",
                !.payload = IF is_malicious THEN payload ELSE <<>>,
                !.llm_raised = is_malicious /\ payload # <<>> /\ gen.kind = "raise",
                !.new_rule = new_rule,
                !.response = response_of(is_malicious, new_rule)]
    IN  IF adds /\ ~redis_ok
        THEN on_exception(decided, "sadd")
        ELSE
        LET learned == [decided EXCEPT !.added = IF adds THEN new_rule ELSE NoneRule]
        IN  CASE CollectionTruth = "false" -> [learned EXCEPT !.outcome = "ok"]
              [] CollectionTruth = "raises" -> on_exception(learned, "bool")
              [] OTHER ->
                    IF mongo_ok THEN [learned EXCEPT !.doc_id = next_oid]
                    ELSE on_exception(learned, "insert_one")

\* result = analysis_collection.insert_one(log_document): the driver gives
\* the document a fresh ObjectId.
insert_one(doc) ==
    /\ docs' = docs \cup {doc}
    /\ next_oid' = next_oid + 1

broadcast_data_unset(inserted_id) == 0

\* broadcast_data = {"_id": log_document["_id"], ...}: the message is known
\* by the id that insert_one returned (main.py 251, 255-266).
broadcast_data(inserted_id) == inserted_id

\* A request arrives and runs to its end, or to the first send of the
\* broadcast of its record (main.py 267).
AnalyzeInputs ==
    [req : Requests, ext : ExtractorOutcomes, llm : LlmCases,
     redis_ok : BOOLEAN, mongo_ok : BOOLEAN, now : Timestamps]

AnalyzeWith(a, in) ==
    /\ call[a].pc = "idle"
    /\    LET c == analyze(in.req, in.ext, in.llm, in.redis_ok, in.mongo_ok) IN
          /\ rules' = IF c.added # NoneRule THEN sadd(rules, c.added) ELSE rules
          /\ IF c.doc_id # 0
             THEN /\ insert_one(log_document(c.doc_id, in.now, in.req,
                                             c.verdict = "malicious", c.new_rule))
                  /\ BeginBroadcast(a, broadcast_data(c.doc_id))
                  /\ call' = [call EXCEPT ![a] =
                                IF bc'[a].pc = "done"
                                THEN [c EXCEPT !.pc = "done", !.outcome = "ok"]
                                ELSE [c EXCEPT !.pc = "broadcast"]]
             ELSE /\ call' = [call EXCEPT ![a] = [c EXCEPT !.pc = "done"]]
                  /\ UNCHANGED <<docs, next_oid, bc, active_connections>>
    /\ UNCHANGED <<startup, whitelist, pr, ws_state, pure, admin, logsvc>>

Analyze(a) ==
    /\ \E in \in AnalyzeInputs : AnalyzeWith(a, in)
    /\ UNCHANGED obs

NotSeen == [seen |-> FALSE]

\* The same request, with the same answers of the oracles and of the
\* stores, is analysed again under the mode that is stored by then.
AnalyzeSame(a) ==
    \E in \in AnalyzeInputs :
        /\ \A b \in Calls : obs[b].seen => obs[b].input = in
        /\ AnalyzeWith(a, in)
        /\ obs' = [obs EXCEPT ![a] = [seen |-> TRUE, input |-> in, mode |-> mode]]

\* A send of the request's broadcast returns or raises; after the last one
\* the handler returns its response.
AnalyzeResume(a) ==
    /\ call[a].pc = "broadcast"
    /\ ResumeBroadcast(a)
    /\ call' = IF bc'[a].pc = "done"
               THEN [call EXCEPT ![a].pc = "done", ![a].outcome = "ok"]
               ELSE call
    /\ UNCHANGED <<startup, stores, pr, ws_state, pure, obs, admin, logsvc>>

(***************************************************************************)
(* /pass-request (main.py 315-353).  HTTPException is an Exception: the    *)
(* 404 and the 400 raised inside the try block reach "except Exception"    *)
(* and leave as status 500.                                                *)
(***************************************************************************)
\* Ids a caller may send: 0 stands for a string that is no ObjectId.
MongoIds == 0..(MaxCalls + 1)

find_one(id) == {d \in docs : d._id = id}

pass_request(mongo_id, redis_ok, mongo_ok) ==
    LET found == find_one(mongo_id)
        body == IF found = {} THEN <<>> ELSE (CHOOSE d \in found : TRUE).request_body
        res(raised, status, add) ==
            [called |-> TRUE, mongo_id |-> mongo_id, found |-> found # {},
             request_body |-> body, raised |-> raised, status |-> status,
             whitelisted |-> add]
    IN  IF ~startup.r THEN res("503", "503", FALSE)
        ELSE IF CollectionTruth = "false" THEN res("503", "503", FALSE)
        ELSE IF CollectionTruth = "raises" THEN res("NotImplementedError", "500", FALSE)
        ELSE IF mongo_id = 0 THEN res("InvalidId", "500", FALSE)
        ELSE IF ~mongo_ok THEN res("find_one", "500", FALSE)
        ELSE IF found = {} THEN res("404", "500", FALSE)
        ELSE IF body = <<>> THEN res("400", "500", FALSE)
        ELSE IF ~redis_ok THEN res("sadd", "500", FALSE)
        ELSE res("none", "200", TRUE)

PassRequest ==
    /\ \E mongo_id \in MongoIds, redis_ok \in BOOLEAN, mongo_ok \in BOOLEAN :
          /\ pr' = pass_request(mongo_id, redis_ok, mongo_ok)
          /\ whitelist' = IF pr'.whitelisted
                          THEN sadd(whitelist, pr'.request_body) ELSE whitelist
    /\ UNCHANGED <<startup, rules, docs, next_oid, call, hub, pure, obs, admin, logsvc>>

(***************************************************************************)
(* /health (main.py 276-283) and /set-mode (main.py 289-308).              *)
(***************************************************************************)
\* The response of health_check, computed from the objects start-up left:
\* r, anomaly_model_loaded and mongo_client (None exactly when
\* analysis_collection is None, main.py 62-70).
health_check ==
    [status |-> IF startup.r /\ startup.anomaly_model_loaded
                   /\ startup.analysis_collection
                THEN "healthy" ELSE "degraded",
     redis_connected |-> startup.r,
     mongodb_connected |-> startup.analysis_collection,
     anomaly_model_loaded |-> startup.anomaly_model_loaded]

\* A /health call; redis_up and mongo_up tell whether the servers answer at
\* the time of the call.
HealthCheck ==
    /\ \E redis_up \in BOOLEAN, mongo_up \in BOOLEAN :
          hc' = [called |-> TRUE, redis_up |-> redis_up, mongo_up |-> mongo_up,
                 response |-> health_check]
    /\ UNCHANGED <<startup, stores, call, pr, hub, pure, obs, mode, sm, logsvc>>

valid_modes == {"off", "fast", "full"}

\* Names a caller may put into the path.
ModeNames == valid_modes \cup {"FULL", "strict"}

set_waf_mode_unchecked(mode_name, redis_ok) ==
    [called |-> TRUE, mode_name |-> mode_name, before |-> mode,
     status |-> IF ~startup.r THEN "503" ELSE IF ~redis_ok THEN "500" ELSE "200",
     stored |-> startup.r /\ redis_ok]

\* set_waf_mode: 400 for a name outside valid_modes, 503 without Redis,
\* 500 when r.set raises, else the name is stored under waf:mode.
set_waf_mode(mode_name, redis_ok) ==
    LET res(status, stored) ==
            [called |-> TRUE, mode_name |-> mode_name, before |-> mode,
             status |-> status, stored |-> stored]
    IN  IF mode_name \notin valid_modes THEN res("400", FALSE)
        ELSE IF ~startup.r THEN res("503", FALSE)
        ELSE IF ~redis_ok THEN res("500", FALSE)
        ELSE res("200", TRUE)

SetWafMode ==
    /\ \E mode_name \in ModeNames, redis_ok \in BOOLEAN :
          /\ sm' = set_waf_mode(mode_name, redis_ok)
          /\ mode' = IF sm'.stored THEN mode_name ELSE mode
    /\ UNCHANGED <<startup, stores, call, pr, hub, pure, obs, hc, logsvc>>

NextAdmin ==
    \/ HealthCheck
    \/ SetWafMode

\* Requests analysed while the operator changes the mode.
NextMode ==
    \/ \E a \in Calls : AnalyzeSame(a)
    \/ SetWafMode

(***************************************************************************)
(* The log service deletes documents of the same collection (logs.py       *)
(* 207-252).  These two actions are the calls that delete something; what  *)
(* the caller of delete_log_by_id is told is kept by DeleteLogByIdCall.    *)
(***************************************************************************)
\* analysis_collection.delete_one({"_id": ObjectId(log_id)}) finds the log.
DeleteLogById ==
    /\ logs_collection
    /\ \E d \in docs : docs' = docs \ {d}
    /\ UNCHANGED <<startup, rules, whitelist, next_oid, call, pr, hub, pure, obs, admin, logsvc>>

\* analysis_collection.delete_many({})
ClearAllLogs ==
    /\ logs_collection
    /\ docs # {}
    /\ docs' = {}
    /\ UNCHANGED <<startup, rules, whitelist, next_oid, call, pr, hub, pure, obs, admin, logsvc>>

(***************************************************************************)
(* The handlers of the log service with their responses.  Each handler     *)
(* answers 503 when logs.py found no MongoDB at start-up (logs.py 38-52);  *)
(* every exception inside its try block, HTTPException included, leaves as *)
(* status 500.  The two queries of get_logs and of get_log_stats are       *)
(* separate commands to the server: other clients of the collection may    *)
(* write between them.                                                     *)
(***************************************************************************)
NoLogCall == [op |-> "none"]

\* A handler of the log service is between its two queries.
Querying == lg.op \in {"get_logs", "get_log_stats"} /\ lg.pc = "querying"

\* get_log_by_id (logs.py 183-204).
get_log_by_id(log_id, mongo_ok) ==
    LET found == find_one(log_id)
        res(raised, status, log) ==
            [op |-> "get_log_by_id", log_id |-> log_id, found |-> found # {},
             raised |-> raised, status |-> status, log |-> log]
    IN  IF ~logs_collection THEN res("503", "503", {})
        ELSE IF log_id = 0 THEN res("InvalidId", "500", {})
        ELSE IF ~mongo_ok THEN res("find_one", "500", {})
        ELSE IF found = {} THEN res("404", "500", {})
        ELSE res("none", "200", found)

GetLogById ==
    /\ ~Querying
    /\ \E log_id \in MongoIds, mongo_ok \in BOOLEAN :
          lg' = get_log_by_id(log_id, mongo_ok)
    /\ UNCHANGED <<startup, stores, call, pr, hub, pure, obs, admin, logs_collection>>

\* delete_log_by_id (logs.py 229-252): delete_one removes the document with
\* the id, if there is one, and reports how many it removed.
delete_log_by_id(log_id, mongo_ok) ==
    LET found == find_one(log_id)
        res(raised, status, deleted) ==
            [op |-> "delete_log_by_id", log_id |-> log_id, found |-> found # {},
             raised |-> raised, status |-> status, deleted |-> deleted]
    IN  IF ~logs_collection THEN res("503", "503", {})
        ELSE IF log_id = 0 THEN res("InvalidId", "500", {})
        ELSE IF ~mongo_ok THEN res("delete_one", "500", {})
        ELSE IF found = {} THEN res("404", "500", {})
        ELSE res("none", "200", found)

DeleteLogByIdCall ==
    /\ ~Querying
    /\ \E log_id \in MongoIds, mongo_ok \in BOOLEAN :
          /\ lg' = delete_log_by_id(log_id, mongo_ok)
          /\ docs' = docs \ lg'.deleted
    /\ UNCHANGED <<startup, rules, whitelist, next_oid, call, pr, hub, pure, obs,
                   admin, logs_collection>>

\* get_logs (logs.py 78-124).
MaxLimit == 1000

MaxLogs == 3         \* documents in the collection of the log service

Limits == {0, 1, MaxLogs - 1, MaxLimit, MaxLimit + 1}
Skips == {-1, 0, 1, MaxLogs}

Min(x, y) == IF x < y THEN x ELSE y
Max(x, y) == IF x > y THEN x ELSE y

clamp_limit_upper(limit) == Min(limit, MaxLimit)

\* limit = min(limit, 1000); limit = max(limit, 1)
clamp_limit(limit) == Max(Min(limit, MaxLimit), 1)

\* skip = max(skip, 0)
clamp_skip(skip) == Max(skip, 0)

\* find().sort("timestamp", -1): the documents by non-increasing timestamp;
\* the server may return documents of equal timestamp in any order.
sort_timestamp_desc(D) ==
    {o \in [1..Cardinality(D) -> D] :
        /\ Range(o) = D
        /\ \A i, j \in 1..Cardinality(D) : i < j => o[i].timestamp >= o[j].timestamp}

\* cursor.skip(skip).limit(limit)
skip_limit(order, skip, limit) == SubSeq(order, skip + 1, Min(skip + limit, Len(order)))

LogFailure(op, status) == [op |-> op, pc |-> "done", status |-> status]

\* The first query of get_logs: logs = list(find().sort().skip().limit()).
GetLogs ==
    /\ ~Querying
    /\ \E limit \in Limits, skip \in Skips, mongo_ok \in BOOLEAN,
          order \in sort_timestamp_desc(docs) :
          lg' = IF ~logs_collection THEN LogFailure("get_logs", "503")
                ELSE IF ~mongo_ok THEN LogFailure("get_logs", "500")
                ELSE [op |-> "get_logs", pc |-> "querying", status |-> "none",
                      in_limit |-> limit, in_skip |-> skip, order |-> order,
                      limit |-> clamp_limit(limit), skip |-> clamp_skip(skip),
                      logs |-> skip_limit(order, clamp_skip(skip), clamp_limit(limit))]
    /\ UNCHANGED <<startup, stores, call, pr, hub, pure, obs, admin, logs_collection>>

\* The second query, total_count = count_documents({}), and the response.
GetLogsReturn ==
    /\ lg.op = "get_logs" /\ lg.pc = "querying"
    /\ \E mongo_ok \in BOOLEAN :
          lg' = IF ~mongo_ok THEN LogFailure("get_logs", "500")
                ELSE [op |-> "get_logs", pc |-> "done", status |-> "200",
                      in_limit |-> lg.in_limit, in_skip |-> lg.in_skip,
                      order |-> lg.order, logs |-> lg.logs,
                      count |-> Len(lg.logs), total |-> Cardinality(docs),
                      skip |-> lg.skip, limit |-> lg.limit,
                      has_more |-> (lg.skip + Len(lg.logs)) < Cardinality(docs)]
    /\ UNCHANGED <<startup, stores, call, pr, hub, pure, obs, admin, logs_collection>>

\* get_log_stats (logs.py 127-154).  Rates are in hundredths of a percent.
detection_rate_floor(malicious_logs, total_logs) ==
    IF total_logs > 0 THEN (malicious_logs * 10000) \div total_logs ELSE 0

\* round((malicious_logs / total_logs * 100), 2) if total_logs > 0 else 0.
\* No count within the bounds gives a quotient half-way between two
\* hundredths, where round() depends on the binary representation.
detection_rate(malicious_logs, total_logs) ==
    IF total_logs > 0
    THEN (2 * malicious_logs * 10000 + total_logs) \div (2 * total_logs)
    ELSE 0

\* find_one(sort=[("timestamp", direction)]): a document of least (1) or
\* greatest (-1) timestamp, None in an empty collection (0 here).
extreme_timestamp(direction) ==
    IF docs = {} THEN 0
    ELSE (CHOOSE d \in docs :
             \A e \in docs : IF direction = 1 THEN d.timestamp <= e.timestamp
                             ELSE d.timestamp >= e.timestamp).timestamp

\* The first query of get_log_stats: total_logs = count_documents({}).
GetLogStats ==
    /\ ~Querying
    /\ \E mongo_ok \in BOOLEAN :
          lg' = IF ~logs_collection THEN LogFailure("get_log_stats", "503")
                ELSE IF ~mongo_ok THEN LogFailure("get_log_stats", "500")
                ELSE [op |-> "get_log_stats", pc |-> "querying", status |-> "none",
                      total_logs |-> Cardinality(docs)]
    /\ UNCHANGED <<startup, stores, call, pr, hub, pure, obs, admin, logs_collection>>

\* The other queries (malicious count, oldest, newest) and the response.
GetLogStatsReturn ==
    /\ lg.op = "get_log_stats" /\ lg.pc = "querying"
    /\ \E mongo_ok \in BOOLEAN :
          LET malicious_logs == Cardinality({d \in docs : d.is_malicious}) IN
          lg' = IF ~mongo_ok THEN LogFailure("get_log_stats", "500")
                ELSE [op |-> "get_log_stats", pc |-> "done", status |-> "200",
                      total_logs |-> lg.total_logs,
                      malicious_logs |-> malicious_logs,
                      benign_logs |-> lg.total_logs - malicious_logs,
                      oldest_log |-> extreme_timestamp(1),
                      newest_log |-> extreme_timestamp(-1),
                      detection_rate |-> detection_rate(malicious_logs, lg.total_logs)]
    /\ UNCHANGED <<startup, stores, call, pr, hub, pure, obs, admin, logs_collection>>

\* The log service over every content of the collection.
StoredLogs ==
    {log_document(id, now, [request_body |-> <<"a">>], m, NoneRule) :
        id \in 1..MaxLogs, now \in Timestamps, m \in BOOLEAN}

LogContents == {D \in SUBSET StoredLogs : \A d, e \in D : d._id = e._id => d = e}

NextLogs ==
    \/ GetLogs
    \/ GetLogsReturn
    \/ GetLogStats
    \/ GetLogStatsReturn
    \/ GetLogById
    \/ DeleteLogByIdCall
    \/ ClearAllLogs

\* The statistics of the log service read while the main service appends to
\* the collection and other callers of the log service delete from it.
NextStats ==
    \/ GetLogStats
    \/ GetLogStatsReturn
    \/ \E a \in Calls : Analyze(a)
    \/ DeleteLogById
    \/ ClearAllLogs

\* Requests analysed one after the other, whitelist overrides and deletions.
NextOverride ==
    \/ \E a \in Calls : Analyze(a)
    \/ PassRequest
    \/ DeleteLogById

InitService(cfg) ==
    /\ startup = cfg
    /\ rules = EmptyBag
    /\ whitelist = EmptyBag
    /\ docs = {}
    /\ next_oid = 1
    /\ call = [a \in Tasks |-> IdleCall]
    /\ pr = NoCall
    /\ mode = "unset"
    /\ sm = NoCall
    /\ hc = NoCall
    /\ logs_collection = TRUE
    /\ lg = NoLogCall
    /\ obs = [a \in Calls |-> NotSeen]

Next ==
    \/ \E a \in Calls : Analyze(a)
    \/ \E a \in Calls : AnalyzeResume(a)
    \/ DeleteLogById
    \/ ClearAllLogs
    \/ \E w \in MainSockets : Connect(w)
    \/ \E w \in MainSockets : Lose(w)
    \/ \E w \in MainSockets : Teardown(w)

(***************************************************************************)
(* Progress of /analyze.  extract_features (main.py 219) and llm_pipe       *)
(* (main.py 159) are called synchronously and without a timeout: when the   *)
(* oracle never answers, the handler stays inside the call, and the event   *)
(* loop it runs on executes no other coroutine.                             *)
(***************************************************************************)
Oracles == {"extract_features", "llm_pipe"}

EventLoopBlocked == \E a \in Calls : call[a].pc \in Oracles

\* A request arrives and the oracle it calls never returns.
OracleNeverAnswers(a) ==
    /\ ~EventLoopBlocked
    /\ call[a].pc = "idle"
    /\ startup.anomaly_model_loaded
    /\ \E oracle \in Oracles :
          /\ oracle = "llm_pipe" => startup.llm_pipe
          /\ call' = [call EXCEPT ![a].pc = oracle]
    /\ UNCHANGED <<startup, stores, pr, hub, pure, obs, admin, logsvc>>

\* The coroutines of the service take turns unless the loop is blocked;
\* clients may go away at any time.
NextLive ==
    \/ ~EventLoopBlocked /\ \E a \in Calls : Analyze(a)
    \/ ~EventLoopBlocked /\ \E a \in Calls : AnalyzeResume(a)
    \/ ~EventLoopBlocked /\ \E w \in MainSockets : Connect(w)
    \/ ~EventLoopBlocked /\ \E w \in MainSockets : Teardown(w)
    \/ \E w \in MainSockets : Lose(w)
    \/ \E a \in Calls : OracleNeverAnswers(a)

\* The event loop resumes every coroutine whose await has completed: a send
\* of a broadcast returns or raises, and the handler goes on.
Fairness ==
    \A a \in Calls : WF_vars(~EventLoopBlocked /\ AnalyzeResume(a))

(***************************************************************************)
(* Specifications: the service from every start-up; the hub, the detector  *)
(* and the synthesizer each on their own, the service started healthy.     *)
(***************************************************************************)
Init == InitPure /\ InitHub /\ \E cfg \in Startups : InitService(cfg)

\* The log service started with or without its MongoDB connection, on a
\* collection that already holds documents.
InitLogs ==
    /\ InitPure /\ InitHub
    /\ startup = Healthy
    /\ rules = EmptyBag /\ whitelist = EmptyBag
    /\ docs \in LogContents
    /\ next_oid = MaxLogs + 1
    /\ call = [a \in Tasks |-> IdleCall]
    /\ pr = NoCall
    /\ mode = "unset" /\ sm = NoCall /\ hc = NoCall
    /\ logs_collection \in BOOLEAN
    /\ lg = NoLogCall
    /\ obs = [a \in Calls |-> NotSeen]

InitHealthy == InitPure /\ InitHub /\ InitService(Healthy)

Spec == Init /\ [][Next]_vars

SpecOverride == Init /\ [][NextOverride]_vars

SpecLogs == InitLogs /\ [][NextLogs]_vars

SpecAdmin == Init /\ [][NextAdmin]_vars

SpecStats == InitHealthy /\ [][NextStats]_vars

SpecMode == InitHealthy /\ [][NextMode]_vars

SpecLive == InitHealthy /\ [][NextLive]_vars /\ Fairness

SpecHub == InitHealthy /\ [][NextHub]_vars

SpecDetector == InitHealthy /\ [][PredictAnomaly]_vars

SpecSynth == InitHealthy /\ [][GenerateRule]_vars

(***************************************************************************)
(* C1: predict_anomaly returns 1 exactly when at least two of the three    *)
(* signals (model outlier, z-score > 7, error > 95th percentile) are true, *)
(* and 0 when at most one is.                                              *)
(***************************************************************************)
MajorityVote ==
    pa.called =>
        /\ pa.category \in {0, 1}
        /\ pa.category = 1 <=>
              \/ pa.if_anomaly /\ pa.statistical_anomaly
              \/ pa.if_anomaly /\ pa.percentile_anomaly
              \/ pa.statistical_anomaly /\ pa.percentile_anomaly

MajorityVoteWitness ==
    /\ pa.called
    /\ ~pa.if_anomaly /\ pa.statistical_anomaly /\ pa.percentile_anomaly
    /\ pa.category = 1

(***************************************************************************)
(* C3: generate_rule_from_payload returns, for every payload (the empty    *)
(* one included) and every oracle outcome (not loaded, raising, arbitrary  *)
(* text), a pattern that compiles as a regular expression.                 *)
(***************************************************************************)
RuleAlwaysCompiles == gr.called => Compiles(gr.rule)

RuleAlwaysCompilesWitness ==
    /\ gr.called
    /\ gr.payload # <<>>
    /\ gr.llm.kind = "text"
    /\ ~Compiles(regex_part(gr.llm.text))
    /\ gr.rule = literal_rule(gr.payload)

(***************************************************************************)
(* C4: when a broadcast call completes, every subscriber whose delivery    *)
(* failed during the call is no longer registered, every subscriber whose  *)
(* delivery succeeded is still registered, and each healthy subscriber     *)
(* (registered when the call started and when it completed) has received   *)
(* the record exactly once.                                                *)
(***************************************************************************)
Count(seq, x) == Cardinality({i \in 1..Len(seq) : seq[i] = x})

BroadcastOutcome(b) ==
    /\ b.failed \cap b.end_active = {}
    /\ Range(b.delivered) \subseteq b.end_active
    /\ \A w \in b.start \cap b.end_active : Count(b.delivered, w) = 1

BroadcastDeliversAndCleans ==
    \A t \in Tasks : bc[t].pc = "done" => BroadcastOutcome(bc[t])

(***************************************************************************)
(* C5: a broadcast pass observes a consistent snapshot of the subscriber   *)
(* set: every subscriber that stays registered from the start to the end   *)
(* of the broadcast call gets a delivery attempt, whatever connect and     *)
(* disconnect calls other tasks make while the broadcast is suspended.     *)
(***************************************************************************)
BroadcastConsistentSnapshot ==
    \A t \in Tasks : bc[t].pc = "done" => bc[t].stable \subseteq bc[t].attempted

(***************************************************************************)
(* C6: each subscriber is unregistered exactly once: the teardown of a     *)
(* connection handler never calls disconnect for a subscriber that is      *)
(* already absent from the registered set, and never ends in an error.     *)
(***************************************************************************)
UnregisteredExactlyOnce ==
    \A w \in Sockets : ws_state[w] # "crashed"

(***************************************************************************)
(* C2: in every audit record analyze writes and in every response it       *)
(* returns, the action is BLOCK (allow = false) if and only if the verdict *)
(* is malicious, and ALLOW (allow = true) if and only if it is benign.     *)
(***************************************************************************)
Returned(a) == call[a].pc = "done" /\ call[a].outcome = "ok"

RecordOf(a) == {d \in docs : d._id = call[a].doc_id}

ActionMatchesVerdict ==
    /\ \A d \in docs :
          /\ d.action_taken \in {"BLOCK", "ALLOW"}
          /\ d.action_taken = "BLOCK" <=> d.is_malicious
    /\ \A a \in Calls :
          /\ Returned(a) =>
                /\ call[a].response.allow = FALSE <=> call[a].verdict = "malicious"
                /\ call[a].response.allow = TRUE <=> call[a].verdict = "benign"
          /\ \A d \in RecordOf(a) :
                d.action_taken = "BLOCK" <=> call[a].verdict = "malicious"

ActionMatchesVerdictWitness ==
    \E a, b \in Calls :
        /\ Returned(a) /\ call[a].verdict = "malicious"
        /\ call[a].response.allow = FALSE
        /\ \E d \in RecordOf(a) : d.action_taken = "BLOCK"
        /\ Returned(b) /\ call[b].verdict = "benign"
        /\ call[b].response.allow = TRUE
        /\ \E d \in RecordOf(b) : d.action_taken = "ALLOW"

(***************************************************************************)
(* C7: whenever the Audit Log is unavailable, absent since start-up or     *)
(* failing at the moment of the append, an analyze call that reached a     *)
(* verdict still returns its allow/block decision, not an error.           *)
(***************************************************************************)
DecisionSurvivesLogOutage ==
    \A a \in Calls :
        ( /\ call[a].pc = "done"
          /\ call[a].verdict # "none"
          /\ call[a].fail # "sadd"
          /\ ~startup.analysis_collection \/ call[a].fail = "insert_one" )
        => /\ call[a].outcome = "ok"
           /\ call[a].response.allow \in BOOLEAN

(***************************************************************************)
(* C8: with the Audit Log available, each analyze call that reaches a      *)
(* verdict appends exactly one audit record, and the records of all calls  *)
(* have pairwise distinct ids, also after records were deleted.            *)
(***************************************************************************)
OneRecordPerCallDistinctIds ==
    /\ \A a \in Calls :
          ( /\ call[a].pc = "done"
            /\ call[a].verdict # "none"
            /\ startup.analysis_collection
            /\ call[a].fail \notin {"sadd", "insert_one"} )
          => call[a].doc_id # 0
    /\ \A a, b \in Calls :
          (a # b /\ call[a].doc_id # 0 /\ call[b].doc_id # 0)
          => call[a].doc_id # call[b].doc_id
    /\ \A d, e \in docs : d._id = e._id => d = e

(***************************************************************************)
(* C9: pass_request with an id that is not in the Audit Log ends with      *)
(* NotFound (404), and with the id of a record whose request body is empty *)
(* with InvalidState (400); the caller sees that outcome, not a generic    *)
(* internal error, and the Whitelist Store is unchanged.                   *)
(***************************************************************************)
OverrideReportsNotFoundAndInvalidState ==
    ( /\ pr.called
      /\ startup.r /\ startup.analysis_collection
      /\ pr.mongo_id # 0
      /\ pr.raised # "find_one" )
    => /\ ~pr.found => pr.status = "404" /\ ~pr.whitelisted
       /\ (pr.found /\ pr.request_body = <<>>) => pr.status = "400" /\ ~pr.whitelisted

OnlyRecordsAfterRegistration ==
    \A t \in Tasks : Range(bc[t].delivered) \subseteq bc[t].start

(***************************************************************************)
(* C12: adding a rule or a whitelist entry is idempotent: after any        *)
(* sequence of analyze and pass_request calls the Rule Store and the       *)
(* Whitelist Store hold each literal at most once, and adding a literal    *)
(* that is already present leaves the store unchanged.                     *)
(***************************************************************************)
NoDuplicates(store) == \A x \in BagToSet(store) : CopiesIn(x, store) = 1

AddPresentIsNoOp ==
    /\ \A a \in Calls :
          ( /\ call[a].pc = "idle"
            /\ call'[a].added # NoneRule
            /\ BagIn(call'[a].added, rules) ) => rules' = rules
    /\ ( /\ pr'.called
         /\ pr'.whitelisted
         /\ BagIn(pr'.request_body, whitelist) ) => whitelist' = whitelist

StoresIdempotent ==
    /\ [](NoDuplicates(rules) /\ NoDuplicates(whitelist))
    /\ [][AddPresentIsNoOp]_vars

StoresIdempotentWitness ==
    /\ \E a, b \in Calls :
          /\ a # b
          /\ call[a].added # NoneRule
          /\ call[a].added = call[b].added
          /\ CopiesIn(call[a].added, rules) = 1
    /\ pr.called /\ pr.whitelisted
    /\ CopiesIn(pr.request_body, whitelist) = 1

(***************************************************************************)
(* C13: when the payload given to the synthesizer is empty (request body   *)
(* and path both empty on a malicious verdict), the synthesizer returns    *)
(* nothing and analyze skips learning: no rule is added to the Rule Store  *)
(* and the audit record and the response carry no learned rule.            *)
(***************************************************************************)
EmptyPayloadSkipsLearning ==
    \A a \in Calls :
        ( /\ call[a].pc = "done"
          /\ call[a].verdict = "malicious"
          /\ call[a].payload = <<>> )
        => /\ call[a].new_rule = NoneRule
           /\ call[a].added = NoneRule
           /\ call[a].response.auto_learned_rule \in {NoneRule, MissingKey}
           /\ \A d \in RecordOf(a) : d.auto_learned_rule = NoneRule

(***************************************************************************)
(* C14: get_log_by_id and delete_log_by_id with an id that is not in the   *)
(* Audit Log end with a NotFound (404) outcome visible to the caller, not  *)
(* a generic internal error, and leave the Audit Log unchanged.            *)
(***************************************************************************)
UnknownIdCall ==
    /\ lg.op \in {"get_log_by_id", "delete_log_by_id"}
    /\ logs_collection
    /\ lg.log_id # 0
    /\ lg.raised \notin {"find_one", "delete_one"}
    /\ ~lg.found

UnknownLogIdIsNotFound ==
    UnknownIdCall =>
        /\ lg.status = "404"
        /\ lg.op = "delete_log_by_id" => lg.deleted = {}

(***************************************************************************)
(* C15: get_logs, for every log content and all integers skip and limit,   *)
(* returns the records at positions max(skip,0) onward in newest-first     *)
(* (non-increasing timestamp) order, at most min(max(limit,1),1000) of     *)
(* them, and reports has_more = (skip + returned) < total.                 *)
(***************************************************************************)
GetLogsAnswered == lg.op = "get_logs" /\ lg.pc = "done" /\ lg.status = "200"

GetLogsPagesNewestFirst ==
    GetLogsAnswered =>
        LET from == IF lg.in_skip > 0 THEN lg.in_skip ELSE 0
            most == IF lg.in_limit < 1 THEN 1
                    ELSE IF lg.in_limit > 1000 THEN 1000 ELSE lg.in_limit
            rest == IF Len(lg.order) > from THEN Len(lg.order) - from ELSE 0
        IN  /\ \A i, j \in 1..Len(lg.order) :
                  i < j => lg.order[i].timestamp >= lg.order[j].timestamp
            /\ Len(lg.logs) = IF rest < most THEN rest ELSE most
            /\ \A i \in 1..Len(lg.logs) : lg.logs[i] = lg.order[from + i]
            /\ lg.count = Len(lg.logs)
            /\ lg.skip = from /\ lg.limit = most
            /\ lg.has_more <=> (lg.skip + lg.count) < lg.total

GetLogsPagesWitness ==
    /\ GetLogsAnswered
    /\ lg.in_skip = 1 /\ lg.in_limit = 1
    /\ lg.total = 3 /\ lg.count = 1 /\ lg.has_more
    /\ lg.order[1].timestamp > lg.order[2].timestamp
    /\ lg.logs = <<lg.order[2]>>

(***************************************************************************)
(* C16: get_log_stats reports detection_rate = 0 when the log holds no     *)
(* records and malicious/total*100 rounded to two decimals otherwise, with *)
(* benign_logs = total_logs - malicious_logs.  (Rates in hundredths.)      *)
(***************************************************************************)
StatsAnswered == lg.op = "get_log_stats" /\ lg.pc = "done" /\ lg.status = "200"

StatsDetectionRate ==
    StatsAnswered =>
        /\ lg.total_logs = 0 => lg.detection_rate = 0
        /\ lg.total_logs > 0 =>
              2 * abs(lg.detection_rate * lg.total_logs - lg.malicious_logs * 10000)
                 <= lg.total_logs
        /\ lg.benign_logs = lg.total_logs - lg.malicious_logs

StatsDetectionRateWitness ==
    /\ StatsAnswered
    /\ lg.total_logs = 3 /\ lg.malicious_logs = 2
    /\ lg.detection_rate = 6667

(***************************************************************************)
(* C17: the health endpoint reports degraded whenever a required           *)
(* collaborator (scoring oracle, rule store, audit log) is unreachable at  *)
(* the time of the health call, including a collaborator that was          *)
(* reachable at start-up and became unreachable later.                     *)
(***************************************************************************)
CollaboratorUnreachable ==
    \/ ~startup.anomaly_model_loaded
    \/ ~(startup.r /\ hc.redis_up)
    \/ ~(startup.analysis_collection /\ hc.mongo_up)

HealthReflectsReachability ==
    (hc.called /\ CollaboratorUnreachable) => hc.response.status = "degraded"

(***************************************************************************)
(* C18: the stored mode only ever takes a value in {off, fast, full}:      *)
(* set_waf_mode with any other name is rejected as invalid input (400) and *)
(* leaves the stored mode unchanged, and set_waf_mode with a valid name    *)
(* that reaches the store sets the stored mode to exactly that name.       *)
(***************************************************************************)
StoredModeIsValid ==
    /\ mode # "unset" => mode \in {"off", "fast", "full"}
    /\ sm.called =>
          /\ sm.mode_name \notin {"off", "fast", "full"} =>
                sm.status = "400" /\ mode = sm.before
          /\ sm.mode_name \in {"off", "fast", "full"} =>
                /\ sm.status \in {"200", "503", "500"}
                /\ sm.status = "200" => mode = sm.mode_name
                /\ sm.status # "200" => mode = sm.before

StoredModeIsValidWitness ==
    /\ sm.called
    /\ sm.mode_name = "FULL" /\ sm.status = "400"
    /\ sm.before = "fast" /\ mode = "fast"

(***************************************************************************)
(* C19: for each analyze call the steps occur in the order decide, learn   *)
(* (only if malicious), log, broadcast, respond: a record is broadcast     *)
(* only after it was appended to the Audit Log and carries the id the log  *)
(* assigned, and the response is returned only after the broadcast of its  *)
(* record has finished.                                                    *)
(***************************************************************************)
StepsInOrder ==
    \A a \in Calls :
        /\ call[a].added # NoneRule => call[a].verdict = "malicious"
        /\ call[a].fail = "sadd" => call[a].doc_id = 0
        /\ call[a].doc_id # 0 =>
              /\ call[a].verdict # "none"
              /\ call[a].doc_id < next_oid
        /\ bc[a].pc # "idle" =>
              /\ call[a].doc_id # 0
              /\ bc[a].msg = call[a].doc_id
        /\ call[a].pc = "broadcast" =>
              /\ bc[a].pc = "sending"
              /\ call[a].outcome = "none"
        /\ (call[a].pc = "done" /\ call[a].doc_id # 0) =>
              /\ bc[a].pc = "done"
              /\ call[a].outcome = "ok"

StepsInOrderWitness ==
    \E a, b \in Calls :
        /\ call[a].pc = "broadcast"
        /\ RecordOf(a) # {}
        /\ Returned(b)
        /\ call[b].added # NoneRule
        /\ RecordOf(b) # {}
        /\ bc[b].pc = "done" /\ Len(bc[b].delivered) = 1

(***************************************************************************)
(* C20: every analyze call that has started eventually reaches the         *)
(* responded step, also when an external oracle (feature extractor or rule *)
(* generator) never answers: the orchestrator bounds the oracle call with  *)
(* a timeout so that the caller is not stalled indefinitely.               *)
(***************************************************************************)
AnalyzeEventuallyResponds ==
    \A a \in Calls : (call[a].pc # "idle") ~> (call[a].pc = "done")

(***************************************************************************)
(* C21: the stored mode has no effect on analysis: for the same request    *)
(* and the same oracle signals, analyze returns the same decision, writes  *)
(* the same audit record and learns the same rule whatever the mode (off,  *)
(* fast or full) is.                                                       *)
(***************************************************************************)
\* The record of a call without the id and as a set (empty: no record).
RecordContent(a) == {[d EXCEPT !._id = 0] : d \in RecordOf(a)}

ModeHasNoEffect ==
    \A a, b \in Calls :
        ( /\ obs[a].seen /\ obs[b].seen
          /\ obs[a].input = obs[b].input )
        => /\ call[a].outcome = call[b].outcome
           /\ call[a].verdict = call[b].verdict
           /\ call[a].response = call[b].response
           /\ call[a].added = call[b].added
           /\ RecordContent(a) = RecordContent(b)

ModeHasNoEffectWitness ==
    \E a, b \in Calls :
        /\ obs[a].seen /\ obs[b].seen
        /\ obs[a].mode = "off" /\ obs[b].mode = "full"
        /\ Returned(a) /\ Returned(b)
        /\ call[a].verdict = "malicious"
        /\ call[a].added # NoneRule
        /\ RecordOf(a) # {} /\ RecordOf(b) # {}

(***************************************************************************)
(* C22: every auto-learned rule that analyze reports in its response or    *)
(* writes into an audit record is a member of the Rule Store at the moment *)
(* the response is returned, also when the rule store connection is        *)
(* absent.                                                                 *)
(***************************************************************************)
ReportedRuleIsStored ==
    \A a \in Calls :
        Returned(a) =>
            /\ Truthy(call[a].new_rule) =>
                  /\ call[a].response.auto_learned_rule = call[a].new_rule
                  /\ BagIn(call[a].new_rule, rules)
            /\ \A d \in RecordOf(a) :
                  Truthy(d.auto_learned_rule) => BagIn(d.auto_learned_rule, rules)

(***************************************************************************)
(* C23: every rule that analyze adds to the Rule Store belongs to a        *)
(* request that ends with a BLOCK response and, when the Audit Log is      *)
(* configured, with an appended audit record naming that rule; no analyze  *)
(* call adds a rule and then ends in an error response without an audit    *)
(* record.                                                                 *)
(***************************************************************************)
LearnedRuleIsAudited ==
    \A a \in Calls :
        (call[a].pc = "done" /\ call[a].added # NoneRule) =>
            /\ call[a].outcome = "ok"
            /\ call[a].response.allow = FALSE
            /\ startup.analysis_collection =>
                  /\ call[a].doc_id # 0
                  /\ \A d \in RecordOf(a) : d.auto_learned_rule = call[a].added

(***************************************************************************)
(* C24: under any interleaving of get_log_stats with concurrent appends    *)
(* and deletes on the Audit Log, every stats response satisfies            *)
(* 0 <= malicious_logs <= total_logs, benign_logs >= 0 and                 *)
(* 0 <= detection_rate <= 100.  (Rates in hundredths of a percent.)        *)
(***************************************************************************)
StatsWithinRange ==
    StatsAnswered =>
        /\ 0 <= lg.malicious_logs /\ lg.malicious_logs <= lg.total_logs
        /\ lg.benign_logs >= 0
        /\ 0 <= lg.detection_rate /\ lg.detection_rate <= 100 * 100

====
